---- MODULE Spec2Model ----
(***************************************************************************)
(* Model of the multi-destination trip planner.                            *)
(*                                                                         *)
(* Two entry points build the same TripDetails / MultiDestinationTrip-     *)
(* Planner pair and differ in generate_comprehensive_trip_plan:            *)
(*   main.py  builds five tasks and runs them with crew.kickoff()          *)
(*   test.py  calls four provider functions one after another              *)
(* Both then write the returned plan to comprehensive_trip_plan.json.      *)
(*                                                                         *)
(* Budgets are integers, as both main() functions pass them.               *)
(***************************************************************************)
EXTENDS Integers, Sequences, FiniteSets, TLC

\* ------------------------------------------------------------------ bounds
MaxBudget == 2
MaxGroup == 2

\* ------------------------------------------------------------ input domains
Places == {"Hyderabad", "Pondicherry"}
Budgets == (0 - 1)..MaxBudget
GroupSizes == 0..MaxGroup
TravelDates == { [start_date |-> "2024-12-22", end_date |-> "2024-12-25"],
                 [start_date |-> "2024-09-15", end_date |-> "2024-09-25"] }
EntryPoints == {"main", "test"}
Outputs == {"plan text A", "plan text B"}
Payloads == {"offers", "empty"}

\* --------------------------------------------------------------- TripDetails
FieldNames == {"from_destination", "to_destination", "budget_min", "budget_max",
               "interests", "travel_style", "group_size", "travel_dates",
               "dietary_restrictions", "accessibility_needs"}

TripDetails(from, to, bmin, bmax, size, dates) ==
    [from_destination |-> from,
     to_destination |-> to,
     budget_min |-> bmin,
     budget_max |-> bmax,
     interests |-> <<"Beach", "Historical">>,
     travel_style |-> "Adventure",
     group_size |-> size,
     travel_dates |-> dates,
     dietary_restrictions |-> <<"vegetarian">>,
     accessibility_needs |-> <<"minimal walking">>]

NoError == "none"
BudgetPositiveMsg == "Budget must be positive"
BudgetOrderMsg == "Minimum budget cannot exceed maximum budget"
GroupSizeMsg == "Group size must be positive"
SamePlaceMsg == "Origin and destination cannot be the same"
GenerationError == "task execution raised"
GatewayError == "provider request raised"

\* validate with the origin/destination comparison left out
validate_NoSamePlace(td) ==
    IF td.budget_min <= 0 \/ td.budget_max <= 0 THEN BudgetPositiveMsg
    ELSE IF td.budget_min > td.budget_max THEN BudgetOrderMsg
    ELSE IF td.group_size <= 0 THEN GroupSizeMsg
    ELSE NoError

\* validate with the group size looked at before the budgets
validate_GroupFirst(td) ==
    IF td.group_size <= 0 THEN GroupSizeMsg
    ELSE IF td.budget_min <= 0 \/ td.budget_max <= 0 THEN BudgetPositiveMsg
    ELSE IF td.budget_min > td.budget_max THEN BudgetOrderMsg
    ELSE IF td.from_destination = td.to_destination THEN SamePlaceMsg
    ELSE NoError

\* TripDetails.validate: the message of the ValueError it raises, or NoError
validate(td) ==
    IF td.budget_min <= 0 \/ td.budget_max <= 0 THEN BudgetPositiveMsg
    ELSE IF td.budget_min > td.budget_max THEN BudgetOrderMsg
    ELSE IF td.group_size <= 0 THEN GroupSizeMsg
    ELSE IF td.from_destination = td.to_destination THEN SamePlaceMsg
    ELSE NoError

\* dataclasses.asdict: a mapping with one key per dataclass field
asdict(td) == [f \in FieldNames |-> td[f]]

\* ------------------------------------------------------------ planner parts
AgentOrder == <<"route_analyzer", "travel_logistics_agent", "destination_researcher",
                "itinerary_planner", "experience_curator">>

Stages == {"route_analysis", "logistics", "research", "itinerary", "personalization"}

\* task list with logistics placed ahead of route analysis
CrewTasks_LogisticsFirst ==
    <<"logistics", "route_analysis", "research", "itinerary", "personalization">>

\* the tasks=[...] list handed to Crew
CrewTasks ==
    <<"route_analysis", "logistics", "research", "itinerary", "personalization">>

\* call order of the provider functions in test.py
GatewayOrder == <<"flights", "hotels", "activities", "weather_forecast">>
Gateways == {"flights", "hotels", "activities", "weather_forecast"}

Terminal == {"Succeeded", "Failed"}

\* str(result) of the crew's output object
Str(result) == result.raw

\* request summary with origin and destination exchanged
RequestEcho_Swapped(td) ==
    [origin |-> td.to_destination,
     destination |-> td.from_destination,
     budget_range |-> [min |-> td.budget_min, max |-> td.budget_max],
     travel_dates |-> td.travel_dates,
     trip_details |-> asdict(td)]

\* the request fields both entry points copy into the returned dict
RequestEcho(td) ==
    [origin |-> td.from_destination,
     destination |-> td.to_destination,
     budget_range |-> [min |-> td.budget_min, max |-> td.budget_max],
     travel_dates |-> td.travel_dates,
     trip_details |-> asdict(td)]

\* dict returned by main.py's generate_comprehensive_trip_plan
MainPlan(td, result) ==
    LET e == RequestEcho(td) IN
    [origin |-> e.origin,
     destination |-> e.destination,
     budget_range |-> e.budget_range,
     travel_dates |-> e.travel_dates,
     comprehensive_trip_plan |-> Str(result),
     trip_details |-> e.trip_details]

\* dict returned by test.py's generate_comprehensive_trip_plan
TestPlan(td, p) ==
    LET e == RequestEcho(td) IN
    [origin |-> e.origin,
     destination |-> e.destination,
     budget_range |-> e.budget_range,
     travel_dates |-> e.travel_dates,
     flights |-> p["flights"],
     hotels |-> p["hotels"],
     activities |-> p["activities"],
     weather_forecast |-> p["weather_forecast"],
     trip_details |-> e.trip_details]

None == [absent |-> TRUE]
NotFetched == "not fetched"
NoOutput == "no output"

\* -------------------------------------------------------------------- state
VARIABLES
    entry,              \* which script is run
    trip_details,       \* main(): the TripDetails object
    pc,                 \* position in main()
    error,              \* message of the exception that ended the run
    self_trip_details,  \* planner.trip_details
    llm,                \* planner.llm has been created
    agents,             \* agents created so far, in creation order
    tasks,              \* crew.tasks
    stageState,         \* execution state of each of the five tasks
    started,            \* tasks whose execution has begun, in order
    outputs,            \* output text of each finished task
    gatewayCalls,       \* provider functions called so far, in order
    payloads,           \* value each provider function returned
    plan,               \* comprehensive_trip_plan in main()
    fileWrites          \* plans written to comprehensive_trip_plan.json

vars == <<entry, trip_details, pc, error, self_trip_details, llm, agents, tasks,
          stageState, started, outputs, gatewayCalls, payloads, plan, fileWrites>>

Init ==
    /\ entry \in EntryPoints
    /\ \E from \in Places, to \in Places, bmin \in Budgets, bmax \in Budgets,
          size \in GroupSizes, dates \in TravelDates :
          trip_details = TripDetails(from, to, bmin, bmax, size, dates)
    /\ pc = "construct"
    /\ error = NoError
    /\ self_trip_details = None
    /\ llm = FALSE
    /\ agents = <<>>
    /\ tasks = <<>>
    /\ stageState = [s \in Stages |-> "Pending"]
    /\ started = <<>>
    /\ outputs = [s \in Stages |-> NoOutput]
    /\ gatewayCalls = <<>>
    /\ payloads = [g \in Gateways |-> NotFetched]
    /\ plan = None
    /\ fileWrites = <<>>

\* ------------------------------------------------- MultiDestinationTripPlanner
\* __init__ that keeps going whatever validate() says
PlannerValidate_Ignored ==
    /\ pc = "construct"
    /\ self_trip_details' = trip_details
    /\ pc' = "create_llm"
    /\ UNCHANGED <<entry, trip_details, error, llm, agents, tasks, stageState,
                   started, outputs, gatewayCalls, payloads, plan, fileWrites>>

\* __init__: trip_details.validate(); self.trip_details = trip_details
PlannerValidate ==
    /\ pc = "construct"
    /\ IF validate(trip_details) # NoError
         THEN /\ error' = validate(trip_details)
              /\ pc' = "raised"
              /\ UNCHANGED self_trip_details
         ELSE /\ self_trip_details' = trip_details
              /\ pc' = "create_llm"
              /\ UNCHANGED error
    /\ UNCHANGED <<entry, trip_details, llm, agents, tasks, stageState,
                   started, outputs, gatewayCalls, payloads, plan, fileWrites>>

\* __init__: self.llm = ChatOpenAI(...)
CreateLLM ==
    /\ pc = "create_llm"
    /\ llm' = TRUE
    /\ pc' = "create_agents"
    /\ UNCHANGED <<entry, trip_details, error, self_trip_details, agents, tasks,
                   stageState, started, outputs, gatewayCalls, payloads, plan,
                   fileWrites>>

\* __init__: the five self._create_*() calls, in order
CreateAgent ==
    /\ pc = "create_agents"
    /\ Len(agents) < Len(AgentOrder)
    /\ agents' = Append(agents, AgentOrder[Len(agents) + 1])
    /\ pc' = IF Len(agents) + 1 = Len(AgentOrder) THEN "generate" ELSE pc
    /\ UNCHANGED <<entry, trip_details, error, self_trip_details, llm, tasks,
                   stageState, started, outputs, gatewayCalls, payloads, plan,
                   fileWrites>>

\* ------------------------------------ main.py generate_comprehensive_trip_plan
\* the five Task(...) objects and Crew(agents=..., tasks=...)
CreateCrew ==
    /\ pc = "generate"
    /\ entry = "main"
    /\ tasks' = CrewTasks
    /\ pc' = "kickoff"
    /\ UNCHANGED <<entry, trip_details, error, self_trip_details, llm, agents,
                   stageState, started, outputs, gatewayCalls, payloads, plan,
                   fileWrites>>

Running == {s \in Stages : stageState[s] = "Running"}

\* crew.kickoff(): the next task of the list begins
TaskStart ==
    /\ pc = "kickoff"
    /\ Running = {}
    /\ Len(started) < Len(tasks)
    /\ LET s == tasks[Len(started) + 1] IN
         /\ stageState' = [stageState EXCEPT ![s] = "Running"]
         /\ started' = Append(started, s)
    /\ UNCHANGED <<entry, trip_details, pc, error, self_trip_details, llm, agents,
                   tasks, outputs, gatewayCalls, payloads, plan, fileWrites>>

\* crew.kickoff(): the running task produces its output
TaskSucceed ==
    /\ pc = "kickoff"
    /\ \E s \in Running, o \in Outputs :
         /\ stageState' = [stageState EXCEPT ![s] = "Succeeded"]
         /\ outputs' = [outputs EXCEPT ![s] = o]
    /\ UNCHANGED <<entry, trip_details, pc, error, self_trip_details, llm, agents,
                   tasks, started, gatewayCalls, payloads, plan, fileWrites>>

\* crew.kickoff(): the running task raises; nothing catches it
TaskFail ==
    /\ pc = "kickoff"
    /\ \E s \in Running :
         stageState' = [stageState EXCEPT ![s] = "Failed"]
    /\ error' = GenerationError
    /\ pc' = "raised"
    /\ UNCHANGED <<entry, trip_details, self_trip_details, llm, agents, tasks,
                   started, outputs, gatewayCalls, payloads, plan, fileWrites>>

\* result = crew.kickoff() returns; return {...}
ReturnMainPlan ==
    /\ pc = "kickoff"
    /\ Len(tasks) > 0
    /\ Len(started) = Len(tasks)
    /\ Running = {}
    /\ plan' = MainPlan(self_trip_details, [raw |-> outputs[tasks[Len(tasks)]]])
    /\ pc' = "returned"
    /\ UNCHANGED <<entry, trip_details, error, self_trip_details, llm, agents,
                   tasks, stageState, started, outputs, gatewayCalls, payloads,
                   fileWrites>>

\* ------------------------------------ test.py generate_comprehensive_trip_plan
\* the next get_*() function returns response.json()
GatewayReturn ==
    /\ pc = "generate"
    /\ entry = "test"
    /\ Len(gatewayCalls) < Len(GatewayOrder)
    /\ LET g == GatewayOrder[Len(gatewayCalls) + 1] IN
         /\ gatewayCalls' = Append(gatewayCalls, g)
         /\ \E p \in Payloads : payloads' = [payloads EXCEPT ![g] = p]
    /\ UNCHANGED <<entry, trip_details, pc, error, self_trip_details, llm, agents,
                   tasks, stageState, started, outputs, plan, fileWrites>>

\* the next get_*() function raises (requests.get or response.json)
GatewayRaise ==
    /\ pc = "generate"
    /\ entry = "test"
    /\ Len(gatewayCalls) < Len(GatewayOrder)
    /\ gatewayCalls' = Append(gatewayCalls, GatewayOrder[Len(gatewayCalls) + 1])
    /\ error' = GatewayError
    /\ pc' = "raised"
    /\ UNCHANGED <<entry, trip_details, self_trip_details, llm, agents, tasks,
                   stageState, started, outputs, payloads, plan, fileWrites>>

\* return {...} after the four provider calls
ReturnTestPlan ==
    /\ pc = "generate"
    /\ entry = "test"
    /\ Len(gatewayCalls) = Len(GatewayOrder)
    /\ plan' = TestPlan(self_trip_details, payloads)
    /\ pc' = "returned"
    /\ UNCHANGED <<entry, trip_details, error, self_trip_details, llm, agents,
                   tasks, stageState, started, outputs, gatewayCalls, payloads,
                   fileWrites>>

\* ---------------------------------------------------------------------- main
\* a save that also runs when the run ended with an exception
SavePlan_OnFailure ==
    /\ pc \in {"returned", "raised"}
    /\ fileWrites' = Append(fileWrites, plan)
    /\ pc' = "done"
    /\ UNCHANGED <<entry, trip_details, error, self_trip_details, llm, agents,
                   tasks, stageState, started, outputs, gatewayCalls, payloads,
                   plan>>

\* with open('comprehensive_trip_plan.json', 'w') as f: json.dump(...)
SavePlan ==
    /\ pc = "returned"
    /\ fileWrites' = Append(fileWrites, plan)
    /\ pc' = "done"
    /\ UNCHANGED <<entry, trip_details, error, self_trip_details, llm, agents,
                   tasks, stageState, started, outputs, gatewayCalls, payloads,
                   plan>>

Next ==
    \/ PlannerValidate
    \/ CreateLLM
    \/ CreateAgent
    \/ CreateCrew
    \/ TaskStart
    \/ TaskSucceed
    \/ TaskFail
    \/ ReturnMainPlan
    \/ GatewayReturn
    \/ GatewayRaise
    \/ ReturnTestPlan
    \/ SavePlan

Spec == Init /\ [][Next]_vars

TypeOK ==
    /\ entry \in EntryPoints
    /\ pc \in {"construct", "create_llm", "create_agents", "generate", "kickoff",
               "returned", "done", "raised"}
    /\ llm \in BOOLEAN
    /\ \A s \in Stages : stageState[s] \in {"Pending", "Running"} \cup Terminal
    /\ Len(started) <= Len(CrewTasks)
    /\ Len(gatewayCalls) <= Len(GatewayOrder)
    /\ Len(fileWrites) <= 1

\* ------------------------------------------------------------------- claims
ValidationMsgs == {BudgetPositiveMsg, BudgetOrderMsg, GroupSizeMsg, SamePlaceMsg}
Validated == pc # "construct"
Returned == pc \in {"returned", "done"}
RunEnded == pc \in {"raised", "returned", "done"}
Range(seq) == {seq[i] : i \in 1..Len(seq)}

\* the error validate() raised in this run, NoError when it raised nothing
ValidationError == IF error \in ValidationMsgs THEN error ELSE NoError

\* dependency edges of the five stages as the specification declares them
Deps ==
    [route_analysis |-> {},
     logistics |-> {"route_analysis"},
     research |-> {},
     itinerary |-> {"route_analysis", "logistics", "research"},
     personalization |-> {"itinerary"}]

\* C1: when validate() raises for the request, constructing the planner ends
\* with that error and nothing else has happened: no language model, no agent,
\* no task, no started stage and no provider call, so the number of capability
\* and provider calls is zero.
C1_ValidationAbortsFirst ==
    validate(trip_details) # NoError =>
        /\ pc \in {"construct", "raised"}
        /\ pc = "raised" => error = validate(trip_details)
        /\ ~llm
        /\ agents = <<>>
        /\ tasks = <<>>
        /\ \A s \in Stages : stageState[s] = "Pending"
        /\ Len(started) + Len(gatewayCalls) = 0
        /\ plan = None

C1_Witness ==
    /\ pc = "raised"
    /\ trip_details.budget_min > trip_details.budget_max
    /\ trip_details.budget_max > 0
    /\ error = BudgetOrderMsg
    /\ ~llm

\* C2 as stated: for every request, identical origin and destination makes
\* validate() fail citing identical origin/destination, and budget_min >
\* budget_max makes it fail citing budget ordering.
C2_Original ==
    Validated =>
        /\ trip_details.from_destination = trip_details.to_destination
              => error = SamePlaceMsg
        /\ trip_details.budget_min > trip_details.budget_max
              => error = BudgetOrderMsg

\* C2 amended: identical origin and destination always makes validate() fail,
\* and the reason cites identical origin/destination when the budgets are
\* positive and ordered and the group size is positive; budget_min > budget_max
\* always makes validate() fail, and the reason cites budget ordering when both
\* budgets are positive.
C2_Amended ==
    Validated =>
        /\ trip_details.from_destination = trip_details.to_destination
              => /\ error \in ValidationMsgs
                 /\ pc = "raised"
                 /\ ( /\ trip_details.budget_min > 0
                      /\ trip_details.budget_max > 0
                      /\ trip_details.budget_min <= trip_details.budget_max
                      /\ trip_details.group_size > 0 ) => error = SamePlaceMsg
        /\ trip_details.budget_min > trip_details.budget_max
              => /\ error \in ValidationMsgs
                 /\ pc = "raised"
                 /\ (trip_details.budget_min > 0 /\ trip_details.budget_max > 0)
                       => error = BudgetOrderMsg

C2_Witness ==
    /\ pc = "raised"
    /\ trip_details.from_destination = trip_details.to_destination
    /\ trip_details.budget_min = 1
    /\ trip_details.budget_max = 1
    /\ error = SamePlaceMsg

\* C3: validate() reports the first violated constraint in the order budget
\* positivity, budget ordering, group size positivity, origin differs from
\* destination; it raises nothing exactly when all four hold and never reports
\* a later constraint while an earlier one is violated.
C3_FirstViolationReported ==
    Validated =>
        LET pos == trip_details.budget_min > 0 /\ trip_details.budget_max > 0
            ord == trip_details.budget_min <= trip_details.budget_max
            grp == trip_details.group_size > 0
            dif == trip_details.from_destination # trip_details.to_destination
        IN /\ (ValidationError = NoError) <=> (pos /\ ord /\ grp /\ dif)
           /\ (ValidationError = BudgetPositiveMsg) <=> ~pos
           /\ (ValidationError = BudgetOrderMsg) <=> (pos /\ ~ord)
           /\ (ValidationError = GroupSizeMsg) <=> (pos /\ ord /\ ~grp)
           /\ (ValidationError = SamePlaceMsg) <=> (pos /\ ord /\ grp /\ ~dif)
           /\ (ValidationError # NoError) <=> (pc = "raised" /\ ~llm)

C3_Witness ==
    /\ pc = "raised"
    /\ trip_details.group_size <= 0
    /\ trip_details.from_destination = trip_details.to_destination
    /\ trip_details.budget_min > 0
    /\ trip_details.budget_min <= trip_details.budget_max
    /\ error = GroupSizeMsg

\* C4: a stage starts only when every stage it depends on has a terminal
\* result, and Experience Personalization starts after all four others are
\* terminal and no stage starts once it has started.
C4_TopologicalOrder ==
    [][ \A s \in Stages :
          (stageState[s] = "Pending" /\ stageState'[s] = "Running") =>
             /\ \A d \in Deps[s] : stageState[d] \in Terminal
             /\ stageState["personalization"] = "Pending"
             /\ s = "personalization" =>
                   \A t \in Stages \ {s} : stageState[t] \in Terminal ]_vars

C4_Witness ==
    /\ Len(started) = 5
    /\ stageState["personalization"] = "Succeeded"
    /\ \A s \in Stages : stageState[s] = "Succeeded"

\* C5: a failing task is recorded against its stage and the run still returns
\* a result object; generate_comprehensive_trip_plan never ends by raising.
C5_StageFailureNotThrown ==
    \A s \in Stages : stageState[s] = "Failed" => pc # "raised"

\* C6: when the lodging provider call fails, no exception escapes the run, the
\* activities and weather providers are still called, and the returned plan
\* carries no lodging payload while the other payloads are present.
C6_LodgingFailureTolerated ==
    ( /\ "hotels" \in Range(gatewayCalls)
      /\ payloads["hotels"] = NotFetched ) =>
        /\ pc # "raised"
        /\ Returned =>
              /\ "activities" \in Range(gatewayCalls)
              /\ "weather_forecast" \in Range(gatewayCalls)
              /\ plan.hotels = NotFetched
              /\ plan.flights \in Payloads
              /\ plan.origin = trip_details.from_destination

\* C7: at the end of a run, a stage with a failed dependency is itself Failed
\* without having been started, and every stage is in a terminal state.
C7_UpstreamFailureFailsDependents ==
    RunEnded =>
        \A s \in Stages : \A d \in Deps[s] :
            stageState[d] = "Failed" =>
                /\ stageState[s] = "Failed"
                /\ s \notin Range(started)
                /\ \A t \in Stages : stageState[t] \in Terminal

\* C8: a returned plan reports exactly one overall status: success iff every
\* stage succeeded, partial iff some succeeded and some failed, failed iff the
\* terminal stage failed.
C8_OverallStatusReported ==
    Returned =>
        /\ "status" \in DOMAIN plan
        /\ plan.status \in {"success", "partial", "failed"}
        /\ (plan.status = "success") <=>
              (\A s \in Stages : stageState[s] = "Succeeded")
        /\ (plan.status = "partial") <=>
              /\ \E s \in Stages : stageState[s] = "Succeeded"
              /\ \E s \in Stages : stageState[s] = "Failed"
        /\ (plan.status = "failed") <=>
              (stageState["personalization"] = "Failed")

\* C9: a returned plan echoes the request: origin, destination, budget range
\* and travel dates equal the request's fields, and trip_details equals the
\* whole request, whatever the tasks or providers returned.
C9_PlanEchoesRequest ==
    Returned =>
        /\ plan.origin = trip_details.from_destination
        /\ plan.destination = trip_details.to_destination
        /\ plan.budget_range = [min |-> trip_details.budget_min,
                                max |-> trip_details.budget_max]
        /\ plan.travel_dates = trip_details.travel_dates
        /\ DOMAIN plan.trip_details = FieldNames
        /\ \A f \in FieldNames : plan.trip_details[f] = trip_details[f]
        /\ self_trip_details = trip_details

C9_Witness ==
    /\ pc = "done"
    /\ entry = "test"
    /\ plan.hotels = "offers"
    /\ plan.destination = "Pondicherry"
    /\ plan.budget_range = [min |-> 1, max |-> 2]

\* C10: through either entry point, a plan is returned only after every one of
\* the five stages has reached a terminal state.
C10_PlanAfterAllStages ==
    Returned => \A s \in Stages : stageState[s] \in Terminal

\* C11: comprehensive_trip_plan.json is written at most once per run, only
\* after generate_comprehensive_trip_plan has returned a plan, and what is
\* written is that whole plan; when validation fails or a task or provider
\* call raises, the file is never opened or written.
C11_PlanSavedOnceAfterReturn ==
    /\ Len(fileWrites) <= 1
    /\ Len(fileWrites) > 0 =>
          /\ pc = "done"
          /\ error = NoError
          /\ validate(trip_details) = NoError
          /\ "origin" \in DOMAIN plan
          /\ fileWrites[1] = plan
          /\ entry = "main" =>
                /\ \A s \in Stages : stageState[s] = "Succeeded"
                /\ plan.comprehensive_trip_plan \in Outputs
          /\ entry = "test" =>
                /\ gatewayCalls = GatewayOrder
                /\ \A g \in Gateways : payloads[g] \in Payloads
    /\ (pc = "raised" \/ error # NoError) => Len(fileWrites) = 0

C11_Witness ==
    /\ pc = "done"
    /\ entry = "main"
    /\ Len(fileWrites) = 1
    /\ fileWrites[1].comprehensive_trip_plan = "plan text B"
    /\ fileWrites[1].origin = "Hyderabad"
====
